---- MODULE Spec2Model ----
(***************************************************************************)
(* chconv (src/main.cpp): walk a directory tree, filter entries with the   *)
(* --exclude / --suffix patterns, classify and detect every file and       *)
(* convert it to the target charset, serially or with a parallel           *)
(* transform_reduce, and report one verdict.                               *)
(*                                                                         *)
(* Strings are sequences of one-character strings, paths are sequences of  *)
(* components (absolute paths leave the leading "/" implicit), file        *)
(* contents are sequences of byte values.                                  *)
(***************************************************************************)
EXTENDS Integers, Sequences, FiniteSets, TLC

(* ------------------------------------------------------------------ *)
(* Bounds of the model                                                 *)
(* ------------------------------------------------------------------ *)
MaxHw == 3          \* hardware_concurrency() ranges over 0..MaxHw
MaxFiles == 2       \* regular files in the scanned tree
MaxSymlinks == 2    \* symbolic links the system follows while it resolves one
                    \* path; beyond that, the lookup fails (ELOOP)

(* ------------------------------------------------------------------ *)
(* Strings                                                             *)
(* ------------------------------------------------------------------ *)
NoOpt == [has |-> FALSE]                 \* an empty std::optional
Opt(v) == [has |-> TRUE, value |-> v]    \* an engaged one

S_in == <<"i", "n">>
S_out == <<"o", "u", "t">>
S_dot == <<".">>
S_dotdot == <<".", ".">>
S_a_txt == <<"a", ".", "t", "x", "t">>
S_c_txt == <<"c", ".", "t", "x", "t">>
S_x_log == <<"x", ".", "l", "o", "g">>
S_x_txt == <<"x", ".", "t", "x", "t">>
S_f_bin == <<"f", ".", "l", "o", "g">>
S_b == <<"b">>
S_build == <<"b", "u", "i", "l", "d">>
S_d_x == <<"d", ".", "x">>
S_w == <<"w">>
S_e_txt == <<"e", ".", "t", "x", "t">>
S_nope == <<"n", "o", "p", "e">>
S_full == <<"f", "u", "l", "l">>
S_o_txt == <<"o", ".", "t", "x", "t">>
S_p_txt == <<"p", ".", "t", "x", "t">>
S_r_txt == <<"r", ".", "t", "x", "t">>
S_g_txt == <<"g", ".", "t", "x", "t">>
S_u_txt == <<"u", ".", "t", "x", "t">>
S_locked == <<"l", "o", "c", "k", "e", "d">>
S_l == <<"l">>
S_up == <<"u", "p">>

RECURSIVE Join(_, _)
\* the components of a path joined by "/" (fs::path::string() of a relative path)
Join(comps, sep) ==
    IF comps = <<>> THEN <<>>
    ELSE IF Len(comps) = 1 THEN comps[1]
    ELSE comps[1] \o sep \o Join(Tail(comps), sep)

RECURSIVE FindSub(_, _, _)
\* std::string::find(needle) != npos, searching from position k
FindSub(hay, needle, k) ==
    IF k + Len(needle) - 1 > Len(hay) THEN FALSE
    ELSE IF SubSeq(hay, k, k + Len(needle) - 1) = needle THEN TRUE
    ELSE FindSub(hay, needle, k + 1)

Contains(hay, needle) == FindSub(hay, needle, 1)

RECURSIVE split_from(_, _, _, _)
split_from(str, delimiter, k, token) ==
    IF k > Len(str)
    THEN IF token = <<>> THEN <<>> ELSE <<token>>
    ELSE IF str[k] = delimiter
         THEN (IF token = <<>> THEN <<>> ELSE <<token>>)
              \o split_from(str, delimiter, k + 1, <<>>)
         ELSE split_from(str, delimiter, k + 1, Append(token, str[k]))

\* split_string: the non-empty tokens between delimiters
split_string(str, delimiter) == split_from(str, delimiter, 1, <<>>)

(* ------------------------------------------------------------------ *)
(* Paths (std::filesystem::path)                                       *)
(* ------------------------------------------------------------------ *)
\* path::string() of an absolute path
PathString(p) == <<"/">> \o Join(p, <<"/">>)

\* path::filename()
Filename(p) == IF p = <<>> THEN <<>> ELSE p[Len(p)]

RECURSIVE LastDot(_, _)
LastDot(name, k) ==
    IF k = 0 THEN 0 ELSE IF name[k] = "." THEN k ELSE LastDot(name, k - 1)

\* path::extension(): from the rightmost period of the filename, unless the
\* filename is "." or ".." or that period is its first character
Extension(p) ==
    LET name == Filename(p)
        d == LastDot(name, Len(name))
    IN IF name = S_dot \/ name = S_dotdot \/ d <= 1 THEN <<>>
       ELSE SubSeq(name, d, Len(name))

\* path::parent_path()
ParentPath(p) == IF p = <<>> THEN <<>> ELSE SubSeq(p, 1, Len(p) - 1)

RECURSIVE CommonPrefix(_, _, _)
CommonPrefix(p, base, k) ==
    IF k < Len(p) /\ k < Len(base) /\ p[k + 1] = base[k + 1]
    THEN CommonPrefix(p, base, k + 1) ELSE k

\* fs::relative(p, base) for canonical absolute paths: lexically_relative
Relative(p, base) ==
    LET k == CommonPrefix(p, base, 0)
    IN IF k = Len(p) /\ k = Len(base) THEN <<S_dot>>
       ELSE [n \in 1..(Len(base) - k) |-> S_dotdot] \o SubSeq(p, k + 1, Len(p))

\* operator/ with a relative right-hand side
PathAppend(p, q) == p \o q

RECURSIVE Normal(_)
\* the file a path names: "." components dropped (no links in the model)
Normal(p) ==
    IF p = <<>> THEN <<>>
    ELSE IF p[1] = S_dot THEN Normal(Tail(p))
    ELSE <<p[1]>> \o Normal(Tail(p))

IsPrefix(d, p) == Len(d) <= Len(p) /\ SubSeq(p, 1, Len(d)) = d
IsUnder(p, d) == Len(d) < Len(p) /\ IsPrefix(d, p)

(* ------------------------------------------------------------------ *)
(* std::regex (ECMAScript subset): literals, \c, ., [set], ^, $, X*     *)
(* ------------------------------------------------------------------ *)
RECURSIVE FindChar(_, _, _)
FindChar(str, c, k) ==
    IF k > Len(str) THEN 0 ELSE IF str[k] = c THEN k ELSE FindChar(str, c, k + 1)

SetOfSeq(s) == {s[k] : k \in 1..Len(s)}

Atom(kind, cs) == [kind |-> kind, cs |-> cs, star |-> FALSE]

\* the constructor threw regex_error
Invalid == [ok |-> FALSE, atoms |-> <<>>]

RECURSIVE Compile(_, _, _)
\* std::regex(pattern_str): ok and the atoms of the pattern, or Invalid
Compile(pat, k, atoms) ==
    IF k > Len(pat) THEN [ok |-> TRUE, atoms |-> atoms]
    ELSE LET c == pat[k] IN
      IF c = "\\" THEN
          IF k = Len(pat) THEN Invalid
          ELSE Compile(pat, k + 2, Append(atoms, Atom("chr", {pat[k + 1]})))
      ELSE IF c = "[" THEN
          LET e == FindChar(pat, "]", k + 1) IN
          IF e = 0 THEN Invalid
          ELSE Compile(pat, e + 1, Append(atoms, Atom("chr", SetOfSeq(SubSeq(pat, k + 1, e - 1)))))
      ELSE IF c = "*" THEN
          IF atoms = <<>> THEN Invalid
          ELSE IF atoms[Len(atoms)].kind \in {"bol", "eol"} \/ atoms[Len(atoms)].star
          THEN Invalid
          ELSE Compile(pat, k + 1, [atoms EXCEPT ![Len(atoms)].star = TRUE])
      ELSE IF c = "." THEN Compile(pat, k + 1, Append(atoms, Atom("any", {})))
      ELSE IF c = "^" THEN Compile(pat, k + 1, Append(atoms, Atom("bol", {})))
      ELSE IF c = "$" THEN Compile(pat, k + 1, Append(atoms, Atom("eol", {})))
      ELSE Compile(pat, k + 1, Append(atoms, Atom("chr", {c})))

Regex(pattern_str) == Compile(pattern_str, 1, <<>>)

AtomMatches(atom, c) == atom.kind = "any" \/ (atom.kind = "chr" /\ c \in atom.cs)

RECURSIVE MatchFrom(_, _, _, _)
MatchFrom(re, i, s, j) ==
    IF i > Len(re) THEN j = Len(s) + 1
    ELSE IF re[i].kind = "bol" THEN j = 1 /\ MatchFrom(re, i + 1, s, j)
    ELSE IF re[i].kind = "eol" THEN j = Len(s) + 1 /\ MatchFrom(re, i + 1, s, j)
    ELSE IF re[i].star
         THEN MatchFrom(re, i + 1, s, j)
              \/ (j <= Len(s) /\ AtomMatches(re[i], s[j]) /\ MatchFrom(re, i, s, j + 1))
    ELSE j <= Len(s) /\ AtomMatches(re[i], s[j]) /\ MatchFrom(re, i + 1, s, j + 1)

\* std::regex_match: the whole string matches
regex_match(s, re) == MatchFrom(re, 1, s, 1)

(* ------------------------------------------------------------------ *)
(* The file system and the command line                                *)
(* ------------------------------------------------------------------ *)
\* file contents: "ni" in GBK, "ni" in UTF-8, ASCII text, NUL-bearing binary
\* data, and a text the detector cannot name
B_gbk == <<196, 227>>
B_utf8 == <<228, 189, 160>>
B_ascii == <<104, 105>>
B_binary == <<0, 1>>
B_unknown == <<104, 255>>
B_empty == <<>>

ScanRoot == <<S_in>>

\* files of ScanRoot that fail in use: magic_file returns no MIME type for
\* p.txt, o.txt cannot be opened for reading, reading r.txt fails
Unprobeable == {<<S_in, S_p_txt>>}
Unopenable == {<<S_in, S_o_txt>>}
Unreadable == {<<S_in, S_r_txt>>}

\* fs::directory_iterator throws for the directory locked, and fs::relative
\* throws for the file u.txt (under either scan root)
Unlistable == {<<S_in, S_locked>>}
Unrelatable == {<<S_in, S_u_txt>>, <<S_w, S_in, S_u_txt>>}

\* the sound regular files a scanned tree may hold, by absolute path
Candidates ==
    { [path |-> <<S_in, S_a_txt>>, bytes |-> B_gbk],
      [path |-> <<S_in, S_x_log>>, bytes |-> B_utf8],
      [path |-> <<S_in, S_x_txt>>, bytes |-> B_unknown],
      [path |-> <<S_in, S_b, S_build, S_c_txt>>, bytes |-> B_ascii],
      [path |-> <<S_in, S_d_x, S_f_bin>>, bytes |-> B_binary] }

Trees == { t \in SUBSET Candidates : Cardinality(t) <= MaxFiles }

FilesOf(t) == [p \in {c.path : c \in t} |-> (CHOOSE c \in t : c.path = p).bytes]

\* the proper ancestor directories of a path
Ancestors(p) == {SubSeq(p, 1, k) : k \in 1..(Len(p) - 1)}

\* every proper ancestor directory of the files of a tree
DirsOf(t) == UNION { Ancestors(c.path) : c \in t }

RECURSIVE resolve(_, _, _, _, _)
\* path resolution as the system does it, component by component: a
\* component that is a symbolic link is replaced by the link's target, and
\* hops counts the links followed
resolve(links, p, k, acc, hops) ==
    IF k > Len(p) THEN [path |-> acc, hops |-> hops]
    ELSE LET q == Append(acc, p[k])
         IN IF \E l \in links : l.path = q
            THEN resolve(links, p, k + 1, (CHOOSE l \in links : l.path = q).target, hops + 1)
            ELSE resolve(links, p, k + 1, q, hops)

Resolve(links, p) == resolve(links, p, 1, <<>>, 0)

\* the paths that name one of paths through one more link
PathsThrough(links, paths) ==
    paths \cup UNION { { l.path \o SubSeq(p, Len(l.target) + 1, Len(p)) :
                            p \in {q \in paths : IsPrefix(l.target, q)} } : l \in links }

RECURSIVE PathsWithin(_, _, _)
\* the paths that name one of paths through at most n links
PathsWithin(links, paths, n) ==
    IF n = 0 THEN paths ELSE PathsWithin(links, PathsThrough(links, paths), n - 1)

\* --exclude values: absent, a component name, an extension and an absolute
\* path, a relative path, an invalid expression, an invalid one among valid
ExcludeArgs ==
    { NoOpt,
      Opt(S_build),
      Opt(<<"\\", ".", "x", ";", "/", "i", "n", "/", "b">>),
      Opt(<<"b", "/", "b", "u", "i", "l", "d">>),
      Opt(<<"[", ";", "b", "u", "i", "l", "d">>) }

\* --suffix values: absent, \.log$, an invalid expression
SuffixArgs ==
    { NoOpt,
      Opt(<<"\\", ".", "l", "o", "g", "$">>),
      Opt(<<"[">>) }

\* the runs of the program: a command line, without --recursive, and the
\* tree the scan root holds
Run(suffix, exclude, dry_run, input, output, to, root, tree) ==
    [suffix |-> suffix, exclude |-> exclude, dry_run |-> dry_run, input |-> input,
     output |-> output, to |-> to, root |-> root, tree |-> tree, recursive |-> FALSE,
     links |-> {}]

\* every combination of patterns, dry-run and output root (mirrored or in
\* place) over the trees of ScanRoot
PatternRuns ==
    { Run(s, e, d, ScanRoot, o, "UTF-8", ScanRoot, t) :
        s \in SuffixArgs, e \in ExcludeArgs, d \in BOOLEAN,
        o \in {<<S_out>>, ScanRoot}, t \in Trees }

\* a second scan root, /w/in, that differs from ScanRoot in its ancestors
DeepRoot == <<S_w, S_in>>

\* the tree t of ScanRoot moved under root
Rebase(t, root) == { [path |-> root \o Tail(c.path), bytes |-> c.bytes] : c \in t }

\* the same trees under DeepRoot, with the valid --exclude values and one
\* that names the ancestor: /w/.*
RootRuns ==
    { Run(NoOpt, e, FALSE, DeepRoot, <<S_out>>, "UTF-8", DeepRoot, Rebase(t, DeepRoot)) :
        e \in (ExcludeArgs \ {Opt(<<"[", ";", "b", "u", "i", "l", "d">>)})
               \cup {Opt(<<"/", "w", "/", ".", "*">>)},
        t \in Trees }

\* a zero-length file under ScanRoot
EmptyFile == [path |-> <<S_in, S_e_txt>>, bytes |-> B_empty]

\* the GBK text a.txt, the companion of a special file in a tree
Companion == [path |-> <<S_in, S_a_txt>>, bytes |-> B_gbk]

\* a file in the directory that cannot be listed, and the file for which
\* fs::relative throws
LockedFile == [path |-> <<S_in, S_locked, S_g_txt>>, bytes |-> B_ascii]
StrayFile == [path |-> <<S_in, S_u_txt>>, bytes |-> B_ascii]

\* ASCII texts at the paths that fail in use
FailingFiles ==
    { [path |-> f, bytes |-> B_ascii] : f \in Unprobeable \cup Unopenable \cup Unreadable }

\* the trees that hold a special file, alone or next to a.txt
SpecialTrees ==
    { {c} \cup rest : c \in {EmptyFile, LockedFile, StrayFile} \cup FailingFiles,
                      rest \in SUBSET {Companion} }

\* the special trees, with and without dry-run, without --exclude and with
\* one that matches nothing in them, build, or part of their absolute
\* paths, in
SpecialRuns ==
    { Run(NoOpt, e, d, ScanRoot, <<S_out>>, "UTF-8", ScanRoot, t) :
        e \in {NoOpt, Opt(S_build), Opt(S_in)}, d \in BOOLEAN, t \in SpecialTrees }

\* --input names one regular file and --output the file to write or the
\* directory /out; or --input names nothing that exists
FileRuns ==
    { Run(s, NoOpt, d, c.path, o, "UTF-8", ScanRoot, {c}) :
        s \in {NoOpt, Opt(<<"\\", ".", "l", "o", "g", "$">>)}, d \in BOOLEAN,
        o \in {<<S_out, S_x_log>>, <<S_out>>},
        c \in Candidates \cup {EmptyFile} \cup FailingFiles }
    \cup { Run(NoOpt, NoOpt, FALSE, <<S_nope>>, <<S_out>>, "UTF-8", ScanRoot, {}) }

\* --to values besides UTF-8: a charset some texts cannot be written in,
\* one that needs four bytes for every character, a name iconv does not know
CharsetRuns ==
    { Run(NoOpt, NoOpt, FALSE, ScanRoot, <<S_out>>, to, ScanRoot, t) :
        to \in {"ASCII", "UTF-32", "X-NONE"}, t \in Trees }

\* the output root is the full volume; the trees hold files of ScanRoot
\* itself, so that no directory has to be made there
VolumeRuns ==
    { Run(NoOpt, NoOpt, FALSE, ScanRoot, <<S_full>>, "UTF-8", ScanRoot, t) :
        t \in {t \in Trees : \A c \in t : Len(c.path) = 2} }

\* a link to a directory that is listed anyway, /in/l -> /in/b, and a link
\* to an ancestor of the directory that holds it, /in/b/up -> /in
AliasLink == [path |-> <<S_in, S_l>>, target |-> <<S_in, S_b>>]
UpLink == [path |-> <<S_in, S_b, S_up>>, target |-> <<S_in>>]

\* the trees of a.txt and b/build/c.txt with one of the links, mirrored
\* into /out, without --exclude and with build
LinkRuns ==
    { [Run(NoOpt, e, d, ScanRoot, <<S_out>>, "UTF-8", ScanRoot, t) EXCEPT !.links = {k}] :
        e \in {NoOpt, Opt(S_build)}, d \in BOOLEAN, k \in {AliasLink, UpLink},
        t \in {t \in Trees : \A c \in t : c.path \in {<<S_in, S_a_txt>>,
                                                       <<S_in, S_b, S_build, S_c_txt>>}} }

\* --recursive given: the dry runs without --suffix that mirror into /out
RecursiveRuns ==
    { [r EXCEPT !.recursive = TRUE] :
        r \in {r \in PatternRuns : r.suffix = NoOpt /\ r.dry_run /\ r.output = <<S_out>>} }

Runs == PatternRuns \cup RootRuns \cup SpecialRuns \cup FileRuns \cup CharsetRuns
        \cup VolumeRuns \cup RecursiveRuns \cup LinkRuns

VARIABLES
    args,               \* the command line: suffix, exclude, dry_run, output, to
    hw,                 \* std::thread::hardware_concurrency()
    g,                  \* the global options struct
    pc,                 \* where main is
    exit_code,          \* main's return value or the argument of std::exit
    fsFiles,            \* regular files: path -> bytes
    fsDirs,             \* directories
    fsLinks,            \* symbolic links to directories: path and target
    input_dirs,         \* process_directory: the frontier
    dir_i,              \* process_directory: index of the next frontier entry
    tasks,              \* process_directory: the task list
    listed,             \* the directories handed to fs::directory_iterator
    excl_log,           \* the should_exclude calls made so far and their results
    run,                \* per task: progress and result of its process_file call
    seq_k,              \* serial branch: index of the next task
    has_failed,         \* process_directory's has_failed
    verdict,            \* what process_directory returned
    cd,                 \* per thread: the thread_local uchardet handle
    g_processed_files,
    iconv_calls,        \* calls of iconv_open and iconv
    single              \* main's own process_file call, for a file given as input

vars == <<args, hw, fsLinks, g, pc, exit_code, fsFiles, fsDirs, input_dirs, dir_i, tasks,
          listed, excl_log, run, seq_k, has_failed, verdict, cd,
          g_processed_files, iconv_calls, single>>

(* ------------------------------------------------------------------ *)
(* options                                                             *)
(* ------------------------------------------------------------------ *)
RECURSIVE compile_all(_, _)
\* the emplace_back loop of parse_regex_pairs: stops at the first throw
compile_all(pattern_strings, k) ==
    IF k > Len(pattern_strings) THEN [ok |-> TRUE, res |-> <<>>]
    ELSE LET re == Regex(pattern_strings[k]) IN
         IF ~re.ok THEN [ok |-> FALSE, res |-> <<>>]
         ELSE LET rest == compile_all(pattern_strings, k + 1) IN
              [ok |-> rest.ok, res |-> <<re.atoms>> \o rest.res]

\* parse_regex_pairs: ok is the returned bool, pairs the out-parameter
parse_regex_pairs(pattern) ==
    LET compiled == compile_all(split_string(pattern, ";"), 1) IN
    [ok |-> compiled.ok,
     pairs |-> [has |-> TRUE, first |-> pattern,
                second |-> IF compiled.ok THEN compiled.res ELSE <<>>]]

\* the option a valid or absent command-line value leaves in g
ParsedOption(arg) == IF ~arg.has THEN NoOpt ELSE parse_regex_pairs(arg.value).pairs

\* options::init calls std::exit(1) when a given pattern list does not parse
InitExits(a) ==
    \/ a.suffix.has /\ ~parse_regex_pairs(a.suffix.value).ok
    \/ a.exclude.has /\ ~parse_regex_pairs(a.exclude.value).ok

(* ------------------------------------------------------------------ *)
(* Path Filter                                                         *)
(* ------------------------------------------------------------------ *)
\* should_exclude, reading the options struct o. Where fs::relative throws,
\* the outer catch searches the absolute path for the raw --exclude value.
\* regex_match does not throw for the expressions of the model, so the catch
\* of std::regex_error is not entered.
should_exclude_in(o, path) ==
    IF ~o.exclude.has THEN FALSE
    ELSE IF path \in Unrelatable THEN Contains(PathString(path), o.exclude.first)
    ELSE LET path_str == PathString(path)
             filename == Filename(path)
             extension == Extension(path)
             relative_path == Relative(path, o.input)
             regex_patterns == o.exclude.second
         IN \E k \in 1..Len(regex_patterns) :
               \/ regex_match(path_str, regex_patterns[k])
               \/ regex_match(filename, regex_patterns[k])
               \/ regex_match(extension, regex_patterns[k])
               \/ \E n \in 1..Len(relative_path) :
                     regex_match(relative_path[n], regex_patterns[k])

\* should_exclude as the program calls it: o is the global g
should_exclude(path) == should_exclude_in(g, path)

\* should_include_suffix
should_include_suffix(filepath) ==
    IF ~g.suffix.has THEN TRUE
    ELSE LET extension == Extension(filepath)
             regex_patterns == g.suffix.second
         IN IF extension = <<>> THEN FALSE
            ELSE \E k \in 1..Len(regex_patterns) : regex_match(extension, regex_patterns[k])

(* ------------------------------------------------------------------ *)
(* Content Classifier: libmagic and uchardet behind their call sites   *)
(* ------------------------------------------------------------------ *)
M_text == <<"t", "e", "x", "t">>
M_text_plain == <<"t", "e", "x", "t", "/", "p", "l", "a", "i", "n">>
M_octet == <<"a", "p", "p", "l", "i", "c", "a", "t", "i", "o", "n", "/", "o", "c", "t", "e", "t">>
M_empty == <<"i", "n", "o", "d", "e", "/", "x", "-", "e", "m", "p", "t", "y">>

\* magic_file with MAGIC_MIME_TYPE, by content
magic_file(bytes) ==
    IF bytes = <<>> THEN M_empty
    ELSE IF \E k \in 1..Len(bytes) : bytes[k] = 0 THEN M_octet
    ELSE M_text_plain

\* mutant: the probe also fails for a file without content
is_text_file_needs_content(files, filepath) ==
    IF Normal(filepath) \notin DOMAIN files \/ Normal(filepath) \in Unprobeable THEN "throw"
    ELSE IF files[Normal(filepath)] = <<>> THEN "throw"
    ELSE IF Contains(magic_file(files[Normal(filepath)]), M_text) THEN "text"
    ELSE "other"

\* mutant: a failed probe counts as "not a text file"
is_text_file_failure_skips(files, filepath) ==
    IF Normal(filepath) \notin DOMAIN files \/ Normal(filepath) \in Unprobeable THEN "other"
    ELSE IF Contains(magic_file(files[Normal(filepath)]), M_text) THEN "text"
    ELSE "other"

\* is_text_file: "throw" when magic_file returns no MIME type
is_text_file(files, filepath) ==
    IF Normal(filepath) \notin DOMAIN files \/ Normal(filepath) \in Unprobeable THEN "throw"
    ELSE IF Contains(magic_file(files[Normal(filepath)]), M_text) THEN "text"
    ELSE "other"

RECURSIVE Utf8Valid(_, _)
Utf8Valid(bytes, k) ==
    IF k > Len(bytes) THEN TRUE
    ELSE IF bytes[k] < 128 THEN Utf8Valid(bytes, k + 1)
    ELSE IF bytes[k] \in 192..223
         THEN k + 1 <= Len(bytes) /\ bytes[k + 1] \in 128..191 /\ Utf8Valid(bytes, k + 2)
    ELSE IF bytes[k] \in 224..239
         THEN k + 2 <= Len(bytes) /\ bytes[k + 1] \in 128..191 /\ bytes[k + 2] \in 128..191
              /\ Utf8Valid(bytes, k + 3)
    ELSE FALSE

\* what uchardet names the accumulated bytes; "" when it cannot tell
Detect(bytes) ==
    IF bytes = <<>> THEN ""
    ELSE IF \A k \in 1..Len(bytes) : bytes[k] < 128 THEN "ASCII"
    ELSE IF \E k \in 1..Len(bytes) : bytes[k] = 255 THEN ""
    ELSE IF Utf8Valid(bytes, 1) THEN "UTF-8"
    ELSE "GB18030"

\* a uchardet handle: the bytes fed since the last reset, the charset found
NewHandle == [acc |-> <<>>, res |-> ""]
uchardet_reset(h) == [acc |-> <<>>, res |-> ""]
uchardet_handle_data(h, data) == [h EXCEPT !.acc = @ \o data]
uchardet_data_end(h) == [h EXCEPT !.res = Detect(h.acc)]
uchardet_get_charset(h) == h.res

(* ------------------------------------------------------------------ *)
(* iconv: decode to code points, encode again                          *)
(* ------------------------------------------------------------------ *)
Fail == [ok |-> FALSE, v |-> <<>>]
Ok(v) == [ok |-> TRUE, v |-> v]
Charsets == {"ASCII", "UTF-8", "GB18030", "UTF-32"}

\* the byte order mark iconv writes first for the target UTF-32
Bom(to) == IF to = "UTF-32" THEN <<255, 254, 0, 0>> ELSE <<>>

RECURSIVE Decode(_, _, _)
\* the code points of bytes read as charset from, Fail at an invalid sequence
Decode(bytes, from, k) ==
    IF k > Len(bytes) THEN Ok(<<>>)
    ELSE LET b == bytes[k]
             one == IF b < 128 THEN [n |-> 1, cp |-> b]
                    ELSE IF from = "UTF-8" /\ b \in 192..223 /\ k + 1 <= Len(bytes)
                            /\ bytes[k + 1] \in 128..191
                    THEN [n |-> 2, cp |-> (b - 192) * 64 + (bytes[k + 1] - 128)]
                    ELSE IF from = "UTF-8" /\ b \in 224..239 /\ k + 2 <= Len(bytes)
                            /\ bytes[k + 1] \in 128..191 /\ bytes[k + 2] \in 128..191
                    THEN [n |-> 3, cp |-> (b - 224) * 4096 + (bytes[k + 1] - 128) * 64
                                          + (bytes[k + 2] - 128)]
                    ELSE IF from = "GB18030" /\ k + 1 <= Len(bytes)
                            /\ <<b, bytes[k + 1]>> = <<196, 227>>
                    THEN [n |-> 2, cp |-> 20320]    \* U+4F60
                    ELSE [n |-> 0, cp |-> 0]
         IN IF one.n = 0 THEN Fail
            ELSE LET rest == Decode(bytes, from, k + one.n) IN
                 IF ~rest.ok THEN Fail ELSE Ok(<<one.cp>> \o rest.v)

RECURSIVE Encode(_, _, _)
\* the bytes of code points cps in charset to, Fail at one it cannot express
Encode(cps, to, k) ==
    IF k > Len(cps) THEN Ok(<<>>)
    ELSE LET c == cps[k]
             one == IF c < 128 THEN <<c>>
                    ELSE IF to = "UTF-8" /\ c < 2048
                    THEN <<192 + (c \div 64), 128 + (c % 64)>>
                    ELSE IF to = "UTF-8"
                    THEN <<224 + (c \div 4096), 128 + ((c \div 64) % 64), 128 + (c % 64)>>
                    ELSE IF to = "GB18030" /\ c = 20320 THEN <<196, 227>>
                    ELSE IF to = "UTF-32"
                    THEN <<c % 256, (c \div 256) % 256, (c \div 65536) % 256, 0>>
                    ELSE <<>>
         IN IF one = <<>> THEN Fail
            ELSE LET rest == Encode(cps, to, k + 1) IN
                 IF ~rest.ok THEN Fail ELSE Ok(one \o rest.v)

\* iconv_open: (iconv_t)-1 for a charset it does not know
iconv_open(to, from) == to \in Charsets /\ from \in Charsets

\* iconv on the whole input with out_left bytes of room: the bytes produced,
\* or Fail for an invalid sequence or too little room
iconv(to, from, input, out_left) ==
    LET cps == Decode(input, from, 1)
        enc == IF ~cps.ok THEN Fail ELSE Encode(cps.v, to, 1)
        out == IF ~enc.ok THEN Fail ELSE Ok(Bom(to) \o enc.v)
    IN IF ~out.ok THEN Fail ELSE IF Len(out.v) > out_left THEN Fail ELSE out

(* ------------------------------------------------------------------ *)
(* Conversion Engine                                                   *)
(* ------------------------------------------------------------------ *)
Put(files, p, bytes) == [q \in DOMAIN files \cup {p} |-> IF q = p THEN bytes ELSE files[q]]

\* fs::create_directories: the directory and its missing ancestors
create_directories(dirs, p) ==
    dirs \cup {SubSeq(Normal(p), 1, k) : k \in 1..Len(Normal(p))}

\* the path lies on the volume /full, which has no room for file data: a
\* file can be created there, writing its bytes fails
OnFullVolume(p) == IsPrefix(<<S_full>>, Normal(p))

\* fs::copy_file(from, to, overwrite_existing): Fail when it throws (no
\* source, no directory for the target, from and to are the same file, or
\* no room for the bytes)
copy_file(files, dirs, from, to) ==
    IF Normal(from) \notin DOMAIN files THEN [ok |-> FALSE, files |-> files]
    ELSE IF Normal(to) = Normal(from) THEN [ok |-> FALSE, files |-> files]
    ELSE IF ParentPath(Normal(to)) \notin dirs THEN [ok |-> FALSE, files |-> files]
    ELSE IF OnFullVolume(to) THEN [ok |-> FALSE, files |-> files]
    ELSE [ok |-> TRUE, files |-> Put(files, Normal(to), files[Normal(from)])]

\* the end of convert_encoding: open the destination and write the bytes
\* iconv produced. The result of output_file.write is not looked at: when
\* the write fails the opened file stays empty and true is returned.
write_output(files, dirs, output_filename, produced) ==
    IF ~produced.ok THEN [ok |-> FALSE, files |-> files, calls |-> 2]
    ELSE IF ParentPath(Normal(output_filename)) \notin dirs \/ Normal(output_filename) \in dirs
    THEN [ok |-> FALSE, files |-> files, calls |-> 2]
    ELSE IF OnFullVolume(output_filename)
    THEN [ok |-> TRUE, files |-> Put(files, Normal(output_filename), <<>>), calls |-> 2]
    ELSE [ok |-> TRUE, files |-> Put(files, Normal(output_filename), produced.v), calls |-> 2]

\* the copy of the fast path
fast_copy(copied) == [ok |-> copied.ok, files |-> copied.files, calls |-> 0]

\* mutant: the output buffer has the size of the input
output_buffer_size_of_input(input_size) == input_size

\* output_buffer_size: input_buffer.size() << 1
output_buffer_size(input_size) == input_size * 2

\* convert_encoding: ok is the returned bool, files the file system after
\* the call, calls the number of iconv_open and iconv calls made
convert_encoding(files, dirs, input_filename, from_encoding, output_filename, to_encoding) ==
    IF from_encoding = to_encoding
    THEN IF input_filename # output_filename
         THEN fast_copy(copy_file(files, dirs, input_filename, output_filename))
         ELSE [ok |-> TRUE, files |-> files, calls |-> 0]
    ELSE IF Normal(input_filename) \notin DOMAIN files
    THEN [ok |-> FALSE, files |-> files, calls |-> 0]
    ELSE IF ~iconv_open(to_encoding, from_encoding)
    THEN [ok |-> FALSE, files |-> files, calls |-> 1]
    ELSE write_output(files, dirs, output_filename,
                      iconv(to_encoding, from_encoding, files[Normal(input_filename)],
                            output_buffer_size(Len(files[Normal(input_filename)]))))

(* ------------------------------------------------------------------ *)
(* process_file, in the two parts the detector handle splits it into   *)
(* ------------------------------------------------------------------ *)
\* process_file up to uchardet_reset: the suffix check, is_text_file and
\* the open, size test and read of detect_encoding
driver_open(files, input_path) ==
    IF ~should_include_suffix(g.input) THEN [go |-> FALSE, status |-> "skip", buffer |-> <<>>]
    ELSE LET probe == is_text_file(files, input_path) IN
         IF probe = "throw" THEN [go |-> FALSE, status |-> "error", buffer |-> <<>>]
         ELSE IF probe = "other" THEN [go |-> FALSE, status |-> "skip", buffer |-> <<>>]
         ELSE IF Normal(input_path) \in Unopenable
         THEN [go |-> FALSE, status |-> "error", buffer |-> <<>>]
         ELSE IF Len(files[Normal(input_path)]) <= 0 THEN [go |-> FALSE, status |-> "skip", buffer |-> <<>>]
         ELSE IF Normal(input_path) \in Unreadable
         THEN [go |-> FALSE, status |-> "error", buffer |-> <<>>]
         ELSE [go |-> TRUE, status |-> "none", buffer |-> files[Normal(input_path)]]

\* ++g_processed_files on the std::atomic_uint64_t: one indivisible
\* read-modify-write (64 bits do not wrap for any number of tasks)
fetch_add(count, inc) == count + inc

\* mutant: the file is counted before the result of the conversion is looked at
converted_counts_all(conv, dirs) ==
    [status |-> IF conv.ok THEN "success" ELSE "error", files |-> conv.files,
     dirs |-> dirs, inc |-> 1, calls |-> conv.calls]

\* the end of process_file: the status for what convert_encoding returned
converted(conv, dirs) ==
    IF ~conv.ok
    THEN [status |-> "error", files |-> conv.files, dirs |-> dirs, inc |-> 0,
          calls |-> conv.calls]
    ELSE [status |-> "success", files |-> conv.files, dirs |-> dirs, inc |-> 1,
          calls |-> conv.calls]

\* mutant: the destination directory is made before dry_run is looked at
driver_finish_dirs_first(files, dirs, input_path, output_path, file_encoding) ==
    IF file_encoding = ""
    THEN [status |-> "error", files |-> files, dirs |-> dirs, inc |-> 0, calls |-> 0]
    ELSE IF g.dry_run
    THEN [status |-> "success", files |-> files,
          dirs |-> create_directories(dirs, ParentPath(output_path)), inc |-> 0, calls |-> 0]
    ELSE converted(convert_encoding(files, create_directories(dirs, ParentPath(output_path)),
                                    input_path, file_encoding, output_path, g.to),
                   create_directories(dirs, ParentPath(output_path)))

\* process_file from the charset uchardet_get_charset returned to its return
driver_finish(files, dirs, input_path, output_path, file_encoding) ==
    IF file_encoding = ""
    THEN [status |-> "error", files |-> files, dirs |-> dirs, inc |-> 0, calls |-> 0]
    ELSE IF g.dry_run
    THEN [status |-> "success", files |-> files, dirs |-> dirs, inc |-> 0, calls |-> 0]
    ELSE converted(convert_encoding(files, create_directories(dirs, ParentPath(output_path)),
                                    input_path, file_encoding, output_path, g.to),
                   create_directories(dirs, ParentPath(output_path)))

\* a process_file call seen from its caller
Outcome(f, h) ==
    [status |-> f.status, files |-> f.files, dirs |-> f.dirs, inc |-> f.inc,
     calls |-> f.calls, h |-> h, enc |-> uchardet_get_charset(h), from |-> h.acc]

detected(files, dirs, h, input_path, output_path) ==
    Outcome(driver_finish(files, dirs, input_path, output_path, uchardet_get_charset(h)), h)

opened(files, dirs, h, input_path, output_path, o) ==
    IF ~o.go
    THEN [status |-> o.status, files |-> files, dirs |-> dirs, inc |-> 0, calls |-> 0,
          h |-> h, enc |-> "", from |-> <<>>]
    ELSE detected(files, dirs,
                  uchardet_data_end(uchardet_handle_data(uchardet_reset(h), o.buffer)),
                  input_path, output_path)

\* one whole process_file call on the thread whose handle is h
process_file(files, dirs, h, input_path, output_path) ==
    opened(files, dirs, h, input_path, output_path, driver_open(files, input_path))

(* ------------------------------------------------------------------ *)
(* Task Enumerator: the traversal of process_directory                 *)
(* ------------------------------------------------------------------ *)
NameOrder ==
    <<S_a_txt, S_b, S_build, S_c_txt, S_d_x, S_e_txt, S_f_bin, S_g_txt, S_l, S_locked,
      S_o_txt, S_p_txt, S_r_txt, S_u_txt, S_up, S_x_log, S_x_txt>>

\* the paths whose lookup follows more links than the system allows
TooManyLinks(p) == Resolve(fsLinks, p).hops > MaxSymlinks

\* the entries of directory d whose status cannot be had: links that are
\* one link too many
Unresolvable(d) ==
    { d \o <<l.path[Len(l.path)]>> :
        l \in {l \in fsLinks : /\ ParentPath(l.path) = Resolve(fsLinks, d).path
                               /\ TooManyLinks(d \o <<l.path[Len(l.path)]>>)} }

ChildEntries(d) ==
    {p \in DOMAIN fsFiles \cup fsDirs : Len(p) = Len(d) + 1 /\ IsPrefix(d, p)}
        \cup Unresolvable(d)

Reverse(s) == [k \in 1..Len(s) |-> s[Len(s) + 1 - k]]

\* the orders fs::directory_iterator may list a directory in (unspecified
\* by the standard): by name, ascending or descending
Listings(d) ==
    LET IsChild(p) == p \in ChildEntries(d)
        asc == SelectSeq([k \in 1..Len(NameOrder) |-> d \o <<NameOrder[k]>>], IsChild)
    IN {asc, Reverse(asc)}

\* mutant: every directory entry is queued
descend_always(path) == TRUE

\* a directory entry is queued unless should_exclude holds for it
descend(path) == ~should_exclude(path)

\* the output path of the task for entry, found while listing dir
target_path(entry, dir) ==
    LET relative_path == Relative(entry, dir)
        rel_dir == Relative(dir, g.input)
    IN PathAppend(PathAppend(g.output, rel_dir), relative_path)

\* whether a regular file entry becomes a task
emits_task(path) == ~should_exclude(path)

\* entry.is_directory() throws: the status of entry cannot be had
is_directory_throws(entry, dir) == entry \in Unresolvable(dir)

\* fs::relative throws while the task for entry, found in dir, is built
target_path_throws(entry, dir) == entry \in Unrelatable \/ dir \in Unrelatable

RECURSIVE scan_entries(_, _, _, _)
\* the inner loop over one directory's entries: acc holds the directories
\* pushed, the tasks emplaced, the should_exclude calls made, and whether an
\* exception ended the loop
scan_entries(entries, k, dir, acc) ==
    IF k > Len(entries) THEN acc
    ELSE LET entry == entries[k]
             call == [path |-> entry, result |-> should_exclude(entry)]
         IN IF is_directory_throws(entry, dir)
            THEN [acc EXCEPT !.threw = TRUE]
            ELSE IF entry \in fsDirs
            THEN scan_entries(entries, k + 1, dir,
                     [acc EXCEPT !.dirs = IF descend(entry) THEN Append(@, entry) ELSE @,
                                 !.log = @ \cup {call}])
            ELSE IF emits_task(entry) /\ target_path_throws(entry, dir)
            THEN [acc EXCEPT !.log = @ \cup {call}, !.threw = TRUE]
            ELSE scan_entries(entries, k + 1, dir,
                     [acc EXCEPT !.tasks = IF emits_task(entry)
                                           THEN Append(@, [first |-> entry,
                                                           second |-> target_path(entry, dir)])
                                           ELSE @,
                                 !.log = @ \cup {call}])

(* ------------------------------------------------------------------ *)
(* Execution Coordinator                                               *)
(* ------------------------------------------------------------------ *)
\* std::execution::par_unseq: calls of the element function may interleave
\* on one thread; std::execution::par would run them one after another
ExecPolicy == "par_unseq"

\* the threads of the parallel algorithm
Workers == IF hw = 0 THEN 1 ELSE hw

\* mutant: the reduction keeps the last result only
reduce_op_last(a, b) == b

\* the binary operation of the transform_reduce
reduce_op(a, b) == a /\ b

\* the transform of the transform_reduce
transform_op(status) == status # "error"

RECURSIVE transform_reduce(_, _, _)
transform_reduce(statuses, k, init) ==
    IF k > Len(statuses) THEN init
    ELSE transform_reduce(statuses, k + 1, reduce_op(init, transform_op(statuses[k])))

\* the body of the serial loop
fold_failed(failed, status) == IF status = "error" THEN TRUE ELSE failed

\* mutant: the loop stops at the first error
next_task_failfast(k, status) == IF status = "error" THEN Len(tasks) + 1 ELSE k + 1

\* the range-for over tasks goes on to the next task whatever the status
next_task(k, status) == k + 1

\* a task's process_file call: calls counts the calls made for the task, thr
\* is the thread, fed the bytes the task gave the detector, from the bytes the
\* charset it read was computed from, enc that charset, iconv its iconv calls
NewRun == [pc |-> "ready", status |-> "none", calls |-> 0, thr |-> 0, enc |-> "",
           fed |-> <<>>, from |-> <<>>, iconv |-> 0]

Statuses == [t \in 1..Len(run) |-> run[t].status]

(* ------------------------------------------------------------------ *)
(* The program                                                         *)
(* ------------------------------------------------------------------ *)
Init ==
    /\ \E r \in Runs :
          /\ args = [suffix |-> r.suffix, exclude |-> r.exclude, dry_run |-> r.dry_run,
                     input |-> r.input, output |-> r.output, to |-> r.to,
                     recursive |-> r.recursive]
          /\ fsLinks = r.links
          /\ fsFiles = Put([p \in PathsWithin(r.links, {c.path : c \in r.tree}, MaxSymlinks)
                                |-> FilesOf(r.tree)[Resolve(r.links, p).path]],
                           <<S_out, S_x_log>>, B_ascii)
          /\ fsDirs = PathsWithin(r.links,
                                  DirsOf(r.tree) \cup Ancestors(r.root)
                                      \cup UNION {Ancestors(l.path) : l \in r.links}
                                      \cup {r.root, <<S_out>>, <<S_full>>},
                                  MaxSymlinks)
    /\ hw \in 0..MaxHw
    /\ g = [dry_run |-> FALSE, input |-> <<>>, output |-> <<>>, suffix |-> NoOpt,
            to |-> "", exclude |-> NoOpt, recursive |-> FALSE]
    /\ pc = "start"
    /\ exit_code = -1
    /\ input_dirs = <<>>
    /\ dir_i = 1
    /\ tasks = <<>>
    /\ listed = <<>>
    /\ excl_log = {}
    /\ run = <<>>
    /\ seq_k = 1
    /\ has_failed = FALSE
    /\ verdict = "none"
    /\ cd = [th \in 1..Workers |-> NewHandle]
    /\ g_processed_files = 0
    /\ iconv_calls = 0
    /\ single = NewRun

\* fs::exists and fs::is_directory as main asks them of g.input
exists(files, dirs, p) == Normal(p) \in DOMAIN files \/ Normal(p) \in dirs
is_directory(dirs, p) == Normal(p) \in dirs

\* options::init, then main up to the call of process_directory or of
\* process_file, or to its return for an input that does not exist
options_init ==
    /\ pc = "start"
    /\ IF InitExits(args)
       THEN /\ pc' = "exit"
            /\ exit_code' = 1
            /\ UNCHANGED <<g, input_dirs>>
       ELSE /\ g' = [dry_run |-> args.dry_run, input |-> args.input, output |-> args.output,
                     suffix |-> ParsedOption(args.suffix), to |-> args.to,
                     exclude |-> ParsedOption(args.exclude),
                     recursive |-> args.recursive]
            /\ IF ~exists(fsFiles, fsDirs, args.input)
               THEN /\ pc' = "exit"
                    /\ exit_code' = 1
                    /\ UNCHANGED input_dirs
               ELSE IF is_directory(fsDirs, args.input)
               THEN /\ input_dirs' = <<args.input>>
                    /\ pc' = "enumerate"
                    /\ UNCHANGED exit_code
               ELSE /\ pc' = "single"
                    /\ UNCHANGED <<exit_code, input_dirs>>
    /\ UNCHANGED <<single, args, hw, fsLinks, fsFiles, fsDirs, dir_i, tasks, listed, excl_log, run,
                   seq_k, has_failed, verdict, cd, g_processed_files, iconv_calls>>

\* one iteration of the outer loop body: fs::directory_iterator(dir), which
\* throws for a directory that cannot be listed, then the loop over entries
list_one(entries, dir) ==
    IF dir \in Unlistable
    THEN [dirs |-> input_dirs, tasks |-> tasks, log |-> excl_log, threw |-> TRUE]
    ELSE scan_entries(entries, 1, dir,
                      [dirs |-> input_dirs, tasks |-> tasks, log |-> excl_log,
                       threw |-> FALSE])

\* mutant: an exception in one directory is swallowed and the loop goes on
after_listing_goes_on(threw) == [pc |-> "enumerate", verdict |-> verdict, step |-> 1]

\* after one iteration: the loop goes on with the next index, or the
\* exception reaches the catch of process_directory, which returns error
after_listing(threw) ==
    IF threw THEN [pc |-> "aborted", verdict |-> "error", step |-> 0]
    ELSE [pc |-> "enumerate", verdict |-> verdict, step |-> 1]

\* one iteration of the index-based loop: list input_dirs[i]
list_directory ==
    /\ pc = "enumerate"
    /\ dir_i <= Len(input_dirs)
    /\ \E entries \in Listings(input_dirs[dir_i]) :
       \E acc \in {list_one(entries, input_dirs[dir_i])} :
       \E nxt \in {after_listing(acc.threw)} :
          /\ input_dirs' = acc.dirs
          /\ tasks' = acc.tasks
          /\ excl_log' = acc.log
          /\ pc' = nxt.pc
          /\ verdict' = nxt.verdict
          /\ dir_i' = dir_i + nxt.step
    /\ listed' = Append(listed, input_dirs[dir_i])
    /\ UNCHANGED <<single, args, hw, fsLinks, g, exit_code, fsFiles, fsDirs, run, seq_k, has_failed,
                   cd, g_processed_files, iconv_calls>>

\* mutant: the parallel branch is taken above the threshold only
takes_parallel_above(size, concurrency) == size > concurrency

\* tasks.size() >= std::thread::hardware_concurrency()
takes_parallel(size, concurrency) == size >= concurrency

\* the traversal is over: choose the branch
choose_branch ==
    /\ pc = "enumerate"
    /\ dir_i > Len(input_dirs)
    /\ pc' = IF takes_parallel(Len(tasks), hw) THEN "parallel" ELSE "serial"
    /\ run' = [t \in 1..Len(tasks) |-> NewRun]
    /\ UNCHANGED <<single, args, hw, fsLinks, g, exit_code, fsFiles, fsDirs, input_dirs, dir_i, tasks, listed,
                   excl_log, seq_k, has_failed, verdict, cd, g_processed_files, iconv_calls>>

\* serial branch: one process_file call
serial_step ==
    /\ pc = "serial"
    /\ seq_k <= Len(tasks)
    /\ \E r \in {process_file(fsFiles, fsDirs, cd[1], tasks[seq_k].first, tasks[seq_k].second)} :
          /\ run' = [run EXCEPT ![seq_k] = [pc |-> "done", status |-> r.status,
                                            calls |-> @.calls + 1, thr |-> 1,
                                            enc |-> r.enc, fed |-> r.from,
                                            from |-> r.from, iconv |-> r.calls]]
          /\ fsFiles' = r.files
          /\ fsDirs' = r.dirs
          /\ cd' = [cd EXCEPT ![1] = r.h]
          /\ g_processed_files' = fetch_add(g_processed_files, r.inc)
          /\ iconv_calls' = iconv_calls + r.calls
          /\ has_failed' = fold_failed(has_failed, r.status)
          /\ seq_k' = next_task(seq_k, r.status)
    /\ UNCHANGED <<single, args, hw, fsLinks, g, pc, exit_code, input_dirs, dir_i, tasks, listed, excl_log,
                   verdict>>

\* serial branch: the loop is over, process_directory returns
serial_return ==
    /\ pc = "serial"
    /\ seq_k > Len(tasks)
    /\ verdict' = IF has_failed THEN "error" ELSE "success"
    /\ pc' = "returned"
    /\ UNCHANGED <<single, args, hw, fsLinks, g, exit_code, fsFiles, fsDirs, input_dirs, dir_i, tasks, listed,
                   excl_log, run, seq_k, has_failed, cd, g_processed_files, iconv_calls>>

InFlight(th) == {t \in 1..Len(run) : run[t].pc = "fed" /\ run[t].thr = th}
UsedThreads == {run[t].thr : t \in 1..Len(run)} \ {0}

\* parallel branch: a thread starts process_file for a task and runs it up
\* to uchardet_handle_data. Threads are interchangeable: a task starts on a
\* thread already used or on the first unused one.
par_begin(t, th) ==
    /\ pc = "parallel"
    /\ run[t].pc = "ready"
    /\ th <= Cardinality(UsedThreads) + 1
    /\ ExecPolicy = "par_unseq" \/ InFlight(th) = {}
    /\ \E o \in {driver_open(fsFiles, tasks[t].first)} :
       IF o.go
       THEN /\ cd' = [cd EXCEPT ![th] = uchardet_handle_data(uchardet_reset(@), o.buffer)]
            /\ run' = [run EXCEPT ![t] = [@ EXCEPT !.pc = "fed", !.calls = @ + 1, !.thr = th,
                                                    !.fed = o.buffer]]
       ELSE /\ run' = [run EXCEPT ![t] = [@ EXCEPT !.pc = "done", !.calls = @ + 1,
                                                    !.thr = th, !.status = o.status]]
            /\ UNCHANGED cd
    /\ UNCHANGED <<single, args, hw, fsLinks, g, pc, exit_code, fsFiles, fsDirs, input_dirs, dir_i, tasks,
                   listed, excl_log, seq_k, has_failed, verdict, g_processed_files,
                   iconv_calls>>

\* parallel branch: the task goes on from uchardet_data_end to its return
par_end(t) ==
    /\ pc = "parallel"
    /\ run[t].pc = "fed"
    /\ \E h \in {uchardet_data_end(cd[run[t].thr])} :
       \E f \in {driver_finish(fsFiles, fsDirs, tasks[t].first, tasks[t].second,
                               uchardet_get_charset(h))} :
          /\ cd' = [cd EXCEPT ![run[t].thr] = h]
          /\ run' = [run EXCEPT ![t] = [@ EXCEPT !.pc = "done", !.status = f.status,
                                                 !.enc = uchardet_get_charset(h),
                                                 !.from = h.acc, !.iconv = f.calls]]
          /\ fsFiles' = f.files
          /\ fsDirs' = f.dirs
          /\ g_processed_files' = fetch_add(g_processed_files, f.inc)
          /\ iconv_calls' = iconv_calls + f.calls
    /\ UNCHANGED <<single, args, hw, fsLinks, g, pc, exit_code, input_dirs, dir_i, tasks, listed, excl_log,
                   seq_k, has_failed, verdict>>

\* parallel branch: transform_reduce returns, process_directory returns
par_return ==
    /\ pc = "parallel"
    /\ \A t \in 1..Len(run) : run[t].pc = "done"
    /\ has_failed' = ~transform_reduce(Statuses, 1, TRUE)
    /\ verdict' = IF has_failed' THEN "error" ELSE "success"
    /\ pc' = "returned"
    /\ UNCHANGED <<single, args, hw, fsLinks, g, exit_code, fsFiles, fsDirs, input_dirs, dir_i, tasks, listed,
                   excl_log, run, seq_k, cd, g_processed_files, iconv_calls>>

\* main for an input that is not a directory: process_file(g.input, g.output)
\* on the main thread
main_process_file ==
    /\ pc = "single"
    /\ \E r \in {process_file(fsFiles, fsDirs, cd[1], g.input, g.output)} :
          /\ single' = [pc |-> "done", status |-> r.status, calls |-> single.calls + 1,
                        thr |-> 1, enc |-> r.enc, fed |-> r.from, from |-> r.from,
                        iconv |-> r.calls]
          /\ fsFiles' = r.files
          /\ fsDirs' = r.dirs
          /\ cd' = [cd EXCEPT ![1] = r.h]
          /\ g_processed_files' = fetch_add(g_processed_files, r.inc)
          /\ iconv_calls' = iconv_calls + r.calls
    /\ pc' = "processed"
    /\ UNCHANGED <<args, hw, fsLinks, g, exit_code, input_dirs, dir_i, tasks, listed, excl_log, run,
                   seq_k, has_failed, verdict>>

\* mutant: a run that found nothing to process counts as failed
main_has_failed_when_idle ==
    \/ pc \in {"returned", "aborted"} /\ (verdict = "error" \/ tasks = <<>>)
    \/ pc = "processed" /\ single.status = "error"

\* main's has_failed after process_directory or process_file
main_has_failed ==
    \/ pc \in {"returned", "aborted"} /\ verdict = "error"
    \/ pc = "processed" /\ single.status = "error"

\* main after process_directory or process_file
main_return ==
    /\ pc \in {"returned", "aborted", "processed"}
    /\ exit_code' = IF main_has_failed THEN 1 ELSE 0
    /\ pc' = "exit"
    /\ UNCHANGED <<single, args, hw, fsLinks, g, fsFiles, fsDirs, input_dirs, dir_i, tasks, listed, excl_log,
                   run, seq_k, has_failed, verdict, cd, g_processed_files, iconv_calls>>

Next ==
    \/ options_init
    \/ list_directory
    \/ choose_branch
    \/ serial_step
    \/ serial_return
    \/ \E t \in 1..Len(run), th \in 1..Workers : par_begin(t, th)
    \/ \E t \in 1..Len(run) : par_end(t)
    \/ par_return
    \/ main_process_file
    \/ main_return

Spec == Init /\ [][Next]_vars

(* ------------------------------------------------------------------ *)
(* Properties                                                          *)
(* ------------------------------------------------------------------ *)
Configured == pc # "start" /\ ~InitExits(args)
Enumerated == pc \in {"parallel", "serial", "returned"} \/ (pc = "exit" /\ verdict # "none")
Returned == pc = "returned"
InParallel == Len(tasks) >= hw
TaskSet == 1..Len(tasks)
WithStatus(st) == {t \in 1..Len(run) : run[t].status = st}

\* the directories below the scan root for which should_exclude holds
ExcludedDirs == {d \in fsDirs : IsUnder(d, g.input) /\ should_exclude(d)}

\* C1 Pruning: a directory under the scan root that should_exclude reports
\* as excluded is never listed, and no task's input file lies under it,
\* whatever the tree and the include-suffix patterns.
C1_Pruning ==
    Configured =>
        \A d \in ExcludedDirs :
            /\ \A k \in 1..Len(listed) : listed[k] # d
            /\ \A t \in TaskSet : ~IsUnder(tasks[t].first, d)

\* the traversal is over, and an excluded directory holds a file that the
\* configured include-suffix patterns match
C1_Witness ==
    /\ Enumerated /\ g.suffix.has
    /\ \E d \in ExcludedDirs : \E f \in DOMAIN fsFiles :
          IsUnder(f, d) /\ should_include_suffix(f)

\* C2 Mirroring: every task's output_path is output_root /
\* relative(input_path, scan_root), component for component, at every depth.
C2_Mirroring ==
    Configured =>
        \A t \in TaskSet :
            tasks[t].second = PathAppend(g.output, Relative(tasks[t].first, g.input))

\* C3 Aggregate correctness: in both branches the verdict process_directory
\* returns is error exactly when some process_file call returned error.
C3_Aggregate ==
    Returned => (verdict = "error" <=> WithStatus("error") # {})

\* the parallel branch returned over one task that failed and one that did not
C3_Witness ==
    /\ Returned /\ InParallel
    /\ WithStatus("error") # {}
    /\ WithStatus("success") \cup WithStatus("skip") # {}

\* C4 Suffix filtering at enumeration: with include-suffix patterns
\* configured, only files for which should_include_suffix holds become tasks.
C4_SuffixFiltering ==
    (Configured /\ g.suffix.has) =>
        \A t \in TaskSet : should_include_suffix(tasks[t].first)

\* some pattern of a given --exclude or --suffix value is not a valid
\* regular expression
HasInvalidPattern(arg) ==
    arg.has /\ \E k \in 1..Len(split_string(arg.value, ";")) :
                  ~Regex(split_string(arg.value, ";")[k]).ok

\* C5 Pattern fallback: an invalid exclude or suffix pattern does not abort
\* the run: the scan still takes place (and the pattern is matched literally).
C5_PatternFallback ==
    (pc = "exit" /\ (HasInvalidPattern(args.exclude) \/ HasInvalidPattern(args.suffix)))
        => (listed # <<>> /\ exit_code = 0)

\* C6 Counter accuracy, as claimed: when all tasks are finished
\* g_processed_files is the number of process_file calls that returned
\* success, in every configuration, dry-run included.
C6_CounterAccuracy ==
    Returned => g_processed_files = Cardinality(WithStatus("success"))

\* C6 amended: at every moment of the run g_processed_files is the number of
\* process_file calls that have returned success after converting a file:
\* the number of success statuses without dry-run (main's own call for a
\* file given as input included), and 0 with dry-run.
C6_CounterAccuracyAmended ==
    Configured =>
        g_processed_files =
            IF g.dry_run THEN 0
            ELSE Cardinality(WithStatus("success"))
                 + (IF single.status = "success" THEN 1 ELSE 0)

\* the parallel branch returned with two files converted on two threads and
\* both counted
C6_Witness ==
    /\ Returned /\ InParallel /\ ~g.dry_run
    /\ Cardinality(WithStatus("success")) = 2
    /\ Cardinality(UsedThreads) = 2
    /\ g_processed_files = 2

\* C7 Continue-on-error, exactly once: no task is passed to process_file
\* twice, and when process_directory returns every task of the list has been
\* passed to it once, whatever the statuses of the others.
C7_ExactlyOnce ==
    /\ \A t \in 1..Len(run) : run[t].calls <= 1
    /\ Returned => /\ Len(run) = Len(tasks)
                   /\ \A t \in TaskSet : run[t].calls = 1 /\ run[t].status # "none"

\* the serial branch returned, its first task failed and the second was
\* still processed
C7_Witness ==
    /\ Returned /\ ~InParallel /\ Len(tasks) = 2
    /\ run[1].status = "error" /\ run[2].status = "success"

\* C8 Handle isolation: in the parallel branch the charset a task reads from
\* the detector handle was computed from that task's own bytes alone.
C8_HandleIsolation ==
    \A t \in 1..Len(run) :
        (run[t].pc = "done" /\ run[t].fed # <<>>) => run[t].from = run[t].fed

\* C9 Fast path: when the detected charset equals the target charset the
\* conversion succeeds, makes no iconv_open or iconv call and leaves a
\* destination with the bytes of the input.
C9_FastPath ==
    \A t \in 1..Len(run) :
        (run[t].pc = "done" /\ ~g.dry_run /\ run[t].enc # "" /\ run[t].enc = g.to) =>
            /\ run[t].status = "success"
            /\ run[t].iconv = 0
            /\ Normal(tasks[t].second) \in DOMAIN fsFiles
            /\ fsFiles[Normal(tasks[t].second)] = fsFiles[Normal(tasks[t].first)]

\* the exclusion the Path Filter is specified to compute: some pattern
\* matches the whole of the path relative to the scan root, of the filename,
\* of the extension, or of one component of the relative path
ExcludedAsSpecified(path) ==
    /\ g.exclude.has
    /\ \E k \in 1..Len(g.exclude.second) :
          \/ regex_match(Join(Relative(path, g.input), <<"/">>), g.exclude.second[k])
          \/ regex_match(Filename(path), g.exclude.second[k])
          \/ regex_match(Extension(path), g.exclude.second[k])
          \/ \E n \in 1..Len(Relative(path, g.input)) :
                regex_match(Relative(path, g.input)[n], g.exclude.second[k])

\* C10 Exclude semantics: every should_exclude call made by the traversal
\* returned true exactly when some pattern fully matches the relative path,
\* the filename, the extension or one component of the relative path.
C10_ExcludeSemantics ==
    \A call \in excl_log : call.result <=> ExcludedAsSpecified(call.path)

\* the scan root that holds the same subtree under another ancestor path
AltRoot(root) == IF root = ScanRoot THEN DeepRoot ELSE ScanRoot

\* C11 Scan-root independence: every should_exclude call made by the
\* traversal returned what should_exclude returns for the path at the same
\* position under a scan root with other ancestors, with the same patterns:
\* the decision depends on the position relative to the scan root only.
C11_ScanRootIndependence ==
    \A call \in excl_log :
        call.result <=> should_exclude_in([g EXCEPT !.input = AltRoot(g.input)],
                                          AltRoot(g.input) \o Relative(call.path, g.input))

\* the input file of task t has zero length
EmptyInput(t) ==
    /\ Normal(tasks[t].first) \in DOMAIN fsFiles
    /\ fsFiles[Normal(tasks[t].first)] = <<>>

\* the process_file call of task t returns in this step
Returns(t) == run[t].pc # "done" /\ run'[t].pc = "done"

\* C12 Empty input: the process_file call of a task whose input file has
\* zero length returns skip and leaves files and directories as they were
\* (so does main's own call for an empty file given as input), and the
\* verdict of a returned process_directory is success when no task with a
\* non-empty input failed.
C12_EmptyInput ==
    /\ [][/\ \A t \in 1..Len(run) :
                (Returns(t) /\ EmptyInput(t)) =>
                    (run'[t].status = "skip" /\ fsFiles' = fsFiles /\ fsDirs' = fsDirs)
          /\ (pc = "single" /\ pc' = "processed" /\ fsFiles[Normal(g.input)] = <<>>) =>
                (single'.status = "skip" /\ fsFiles' = fsFiles /\ fsDirs' = fsDirs)]_vars
    /\ [](Returned =>
            ((\A t \in TaskSet : EmptyInput(t) \/ run[t].status # "error")
                => verdict = "success"))

\* the parallel branch returned success over an empty file, skipped, and a
\* file that was converted
C12_Witness ==
    /\ Returned /\ InParallel /\ ~g.dry_run /\ verdict = "success"
    /\ \E t \in TaskSet : EmptyInput(t) /\ run[t].status = "skip"
    /\ WithStatus("success") # {}

\* the traversal of process_directory has run to its end
Traversed == input_dirs # <<>> /\ dir_i > Len(input_dirs)

\* the aggregate verdict main got: process_directory's, or for a file given
\* as input the one its process_file status stands for; "none" when main
\* called neither
AggregateVerdict ==
    IF single.pc = "done" THEN (IF single.status = "error" THEN "error" ELSE "success")
    ELSE verdict

\* C13 Nothing to process, as claimed: process_directory returns success
\* over an empty task list whatever hardware_concurrency() is and main then
\* exits with 0; main exits non-zero exactly when the aggregate verdict is
\* error.
C13_NothingToProcess ==
    /\ (Returned /\ tasks = <<>>) => verdict = "success"
    /\ (pc = "exit" /\ Traversed /\ tasks = <<>>) => exit_code = 0
    /\ pc = "exit" => (exit_code # 0 <=> AggregateVerdict = "error")

\* C13 amended: the same for an empty task list; main exits non-zero
\* exactly when the aggregate verdict is error or there is none, and there
\* is none only when options::init rejected the command line or the input
\* does not exist.
C13_NothingToProcessAmended ==
    /\ (Returned /\ tasks = <<>>) => verdict = "success"
    /\ (pc = "exit" /\ Traversed /\ tasks = <<>>) => exit_code = 0
    /\ pc = "exit" => (exit_code # 0 <=> AggregateVerdict \in {"error", "none"})
    /\ (pc = "exit" /\ AggregateVerdict = "none") =>
            (InitExits(args) \/ ~exists(fsFiles, fsDirs, args.input))

\* main exited with 0 after a traversal in which every file of the tree was
\* excluded, with hardware_concurrency() = 0
C13_Witness ==
    /\ pc = "exit" /\ exit_code = 0 /\ hw = 0
    /\ Traversed /\ tasks = <<>> /\ g.exclude.has
    /\ \E f \in DOMAIN fsFiles : IsUnder(f, g.input)

\* the steps of process_file after the suffix check would not skip task t:
\* its input file is a non-empty text file
PassesClassifier(t) ==
    /\ is_text_file(fsFiles, tasks[t].first) = "text"
    /\ fsFiles[Normal(tasks[t].first)] # <<>>

\* C14 Driver suffix re-check: a task whose input file fails
\* should_include_suffix returns skip, and a task whose input file passes it
\* is not skipped by the suffix check: when its file is a non-empty text
\* file, its status is not skip.
C14_SuffixRecheck ==
    \A t \in 1..Len(run) :
        run[t].pc = "done" =>
            /\ ~should_include_suffix(tasks[t].first) => run[t].status = "skip"
            /\ (should_include_suffix(tasks[t].first) /\ PassesClassifier(t))
                    => run[t].status # "skip"

\* the failures C15 lists, for a conversion of input from charset enc to
\* g.to with destination output: iconv_open does not know a name, the iconv
\* call fails (too little room included), or the destination cannot be
\* opened or written
ConversionFails(input, output, enc) ==
    /\ enc # g.to
    /\ \/ ~iconv_open(g.to, enc)
       \/ ~iconv(g.to, enc, fsFiles[Normal(input)], Len(fsFiles[Normal(input)]) * 2).ok
       \/ Normal(output) \in fsDirs
       \/ OnFullVolume(output)

\* C15 Conversion failures surface as error: when a process_file call that
\* reached convert_encoding returns, and iconv_open, iconv, the opening or
\* the writing of the destination failed in it, its status is error and
\* g_processed_files was not incremented.
C15_ConversionFailures ==
    [][/\ \A t \in 1..Len(run) :
            (Returns(t) /\ ~g.dry_run /\ run'[t].enc # ""
             /\ ConversionFails(tasks[t].first, tasks[t].second, run'[t].enc))
                => (run'[t].status = "error" /\ g_processed_files' = g_processed_files)
       /\ (pc = "single" /\ pc' = "processed" /\ ~g.dry_run /\ single'.enc # ""
           /\ ConversionFails(g.input, g.output, single'.enc))
                => (single'.status = "error" /\ g_processed_files' = g_processed_files)]_vars

\* the classify and detect stages of a process_file call for input fail:
\* the call gets past the suffix check and the probe fails, or the file
\* cannot be opened, or cannot be read; or the detector was fed and the
\* charset label read from it (enc) is empty
StageFails(input, fed, enc) ==
    /\ should_include_suffix(g.input)
    /\ \/ Normal(input) \in Unprobeable \cup Unopenable \cup Unreadable
       \/ fed # <<>> /\ enc = ""

\* C16 Classification and detection failures are local: a process_file
\* call in which the probe, the open, the read or the detection fails
\* returns error and leaves files and directories as they were, and
\* process_directory still returns only after every task has been processed.
C16_LocalFailures ==
    /\ [][/\ \A t \in 1..Len(run) :
                (Returns(t) /\ StageFails(tasks[t].first, run'[t].fed, run'[t].enc))
                    => (run'[t].status = "error" /\ fsFiles' = fsFiles /\ fsDirs' = fsDirs)
          /\ (pc = "single" /\ pc' = "processed"
              /\ StageFails(g.input, single'.fed, single'.enc))
                    => (single'.status = "error" /\ fsFiles' = fsFiles /\ fsDirs' = fsDirs)]_vars
    /\ [](Returned => \A t \in TaskSet : run[t].pc = "done" /\ run[t].calls = 1)

\* the serial branch returned: the probe failed for its first task, and the
\* second task was converted
C16_Witness ==
    /\ Returned /\ ~InParallel /\ Len(tasks) = 2 /\ ~g.dry_run
    /\ Normal(tasks[1].first) \in Unprobeable
    /\ run[1].status = "error" /\ run[2].status = "success"

\* the status of a dry-run process_file call as the stages before the
\* conversion decide it: error when a stage fails, success when the
\* detector was fed and named a charset, skip otherwise
DryRunStatus(input, fed, enc) ==
    IF StageFails(input, fed, enc) THEN "error"
    ELSE IF fed # <<>> THEN "success"
    ELSE "skip"

\* C17 Dry-run writes nothing: with dry_run set no step creates a
\* directory, writes or copies a file or calls iconv_open or iconv, and every
\* process_file call returns success for a non-empty text file whose charset
\* was detected, and the skip or error of the classify and detect stages
\* otherwise.
C17_DryRun ==
    [][g.dry_run =>
        /\ fsFiles' = fsFiles /\ fsDirs' = fsDirs /\ iconv_calls' = iconv_calls
        /\ \A t \in 1..Len(run) :
              Returns(t) =>
                  run'[t].status = DryRunStatus(tasks[t].first, run'[t].fed, run'[t].enc)
        /\ (pc = "single" /\ pc' = "processed") =>
                  single'.status = DryRunStatus(g.input, single'.fed, single'.enc)]_vars

\* a dry run returned: a file in a subdirectory got success, and its
\* destination directory does not exist
C17_Witness ==
    /\ Returned /\ g.dry_run
    /\ \E t \in TaskSet :
          /\ run[t].status = "success"
          /\ Len(tasks[t].first) > Len(g.input) + 1
          /\ Normal(ParentPath(tasks[t].second)) \notin fsDirs

\* the next iteration of the traversal throws: the directory it lists
\* cannot be listed, or it holds a regular file that is not excluded and
\* for which fs::relative throws
ThrowsNext ==
    /\ pc = "enumerate" /\ dir_i <= Len(input_dirs)
    /\ \/ input_dirs[dir_i] \in Unlistable
       \/ \E f \in DOMAIN fsFiles :
             /\ ParentPath(f) = input_dirs[dir_i]
             /\ f \in Unrelatable /\ ~should_exclude(f)

\* process_directory left its traversal through its catch block
Aborted == verdict = "error" /\ input_dirs # <<>> /\ dir_i <= Len(input_dirs)

\* C18 Enumeration failure aborts the batch: when listing a directory or
\* computing a relative path throws in the traversal, process_directory
\* returns error at once; no process_file call is ever made in such a run,
\* no file or directory is written up to and after the abort, and main
\* exits with 1.
C18_EnumerationAbort ==
    /\ [][/\ ThrowsNext => (pc' = "aborted" /\ verdict' = "error")
          /\ (pc \in {"enumerate", "aborted"} \/ Aborted)
                => (fsFiles' = fsFiles /\ fsDirs' = fsDirs)]_vars
    /\ [](Aborted => /\ run = <<>> /\ single.calls = 0
                     /\ g_processed_files = 0 /\ iconv_calls = 0
                     /\ pc \in {"aborted", "exit"}
                     /\ pc = "exit" => exit_code = 1)

\* main exited with 1 after the traversal had emplaced a task and then
\* met the directory that cannot be listed
C18_Witness ==
    /\ pc = "exit" /\ exit_code = 1 /\ Aborted
    /\ tasks # <<>> /\ run = <<>>
    /\ \E k \in 1..Len(listed) : listed[k] \in Unlistable

RECURSIVE SerialFailed(_, _, _)
\* has_failed as the serial loop computes it over a sequence of statuses
SerialFailed(statuses, k, failed) ==
    IF k > Len(statuses) THEN failed
    ELSE SerialFailed(statuses, k + 1, fold_failed(failed, statuses[k]))

\* C19 Serial/parallel threshold: the serial branch is entered exactly with
\* fewer tasks than hardware_concurrency() and the parallel branch with at
\* least as many (always, when it is 0); the serial branch runs the tasks
\* one at a time in list order on the calling thread; and over the statuses
\* of a returned run the serial fold and the parallel reduction give the
\* same verdict, the one returned.
C19_Threshold ==
    /\ pc = "serial" =>
          /\ Len(tasks) < hw
          /\ \A t \in 1..Len(run) :
                /\ run[t].pc = (IF t < seq_k THEN "done" ELSE "ready")
                /\ run[t].thr = (IF t < seq_k THEN 1 ELSE 0)
    /\ pc = "parallel" => Len(tasks) >= hw
    /\ Returned =>
          /\ SerialFailed(Statuses, 1, FALSE) = ~transform_reduce(Statuses, 1, TRUE)
          /\ verdict = (IF SerialFailed(Statuses, 1, FALSE) THEN "error" ELSE "success")

\* the parallel branch, entered with as many tasks as
\* hardware_concurrency(), has two tasks under way on two threads
C19_Witness ==
    /\ pc = "parallel" /\ Len(tasks) = hw /\ hw = 2
    /\ run[1].pc = "fed" /\ run[2].pc = "fed" /\ run[1].thr # run[2].thr

\* the bytes of a text in charset from written in charset to, however long
Transcoded(bytes, from, to) ==
    LET cps == Decode(bytes, from, 1) IN
    IF ~cps.ok THEN Fail
    ELSE LET enc == Encode(cps.v, to, 1) IN
         IF ~enc.ok THEN Fail ELSE Ok(Bom(to) \o enc.v)

\* what C20 says of a process_file call that took the general path of
\* convert_encoding, from charset enc: call is its record after the return
SinglePass(input, output, call) ==
    IF ~iconv_open(g.to, call.enc)
    THEN call.iconv = 1 /\ call.status = "error" /\ fsFiles' = fsFiles
    ELSE /\ call.iconv = 2
         /\ LET bytes == fsFiles[Normal(input)]
                produced == Transcoded(bytes, call.enc, g.to)
            IN IF ~produced.ok \/ Len(produced.v) > 2 * Len(bytes)
               THEN call.status = "error" /\ fsFiles' = fsFiles
               ELSE IF Normal(output) \in fsDirs
               THEN call.status = "error" /\ fsFiles' = fsFiles
               ELSE /\ call.status = "success"
                    /\ OnFullVolume(output) \/ fsFiles'[Normal(output)] = produced.v

\* C20 Single-pass transcoding: a process_file call that takes the general
\* path makes one iconv_open call and, when that succeeds, exactly one iconv
\* call; it fails, leaving every file as it was, exactly when the text cannot
\* be transcoded or its transcoding is longer than twice the input; and
\* otherwise the destination holds exactly the bytes produced.
C20_SinglePass ==
    [][/\ \A t \in 1..Len(run) :
            (Returns(t) /\ ~g.dry_run /\ run'[t].enc # "" /\ run'[t].enc # g.to)
                => SinglePass(tasks[t].first, tasks[t].second, run'[t])
       /\ (pc = "single" /\ pc' = "processed" /\ ~g.dry_run /\ single'.enc # ""
           /\ single'.enc # g.to)
                => SinglePass(g.input, g.output, single')]_vars

\* a GBK text of two bytes was transcoded into three bytes of UTF-8, with
\* one iconv call, into another file
C20_Witness ==
    \E t \in 1..Len(run) :
        /\ run[t].pc = "done" /\ run[t].status = "success" /\ run[t].iconv = 2
        /\ run[t].enc = "GB18030" /\ g.to = "UTF-8"
        /\ Normal(tasks[t].second) # Normal(tasks[t].first)
        /\ Len(fsFiles[Normal(tasks[t].first)]) = 2
        /\ Len(fsFiles[Normal(tasks[t].second)]) = 3

\* the file or directory a path names, links followed
Real(p) == Resolve(fsLinks, p).path

\* a path under the scan root that passes through no link, and none of
\* whose ancestor directories below the scan root, nor the path itself,
\* should_exclude reports
Open(p) ==
    /\ IsUnder(p, g.input)
    /\ Real(p) = p
    /\ \A a \in Ancestors(p) \cup {p} : IsUnder(a, g.input) => ~should_exclude(a)

\* the regular files that are due a task, and the directories due a listing
OpenFiles == {f \in DOMAIN fsFiles : Open(f)}
OpenDirs == {g.input} \cup {d \in fsDirs : Open(d)}

\* the position of directory d in the frontier, 0 if it is not there
FrontierIndex(d) ==
    IF \E k \in 1..Len(input_dirs) : input_dirs[k] = d
    THEN CHOOSE k \in 1..Len(input_dirs) : input_dirs[k] = d
    ELSE 0

\* C21 Enumeration completeness: once process_directory has traversed the
\* scan root, the tasks name, no file twice, exactly the regular files
\* under the scan root, at any depth, that are not excluded and have no
\* excluded ancestor directory below the scan root; the directories listed
\* are, no directory twice, exactly the scan root and the directories below
\* it that are not excluded and have no excluded ancestor, listed in the
\* order the frontier holds them, which is first-in first-out: the scan root
\* first, and directories in the order of the listings that found them;
\* whatever the recursive option is.
C21_EnumerationCompleteness ==
    Traversed =>
        /\ {Real(tasks[t].first) : t \in TaskSet} = OpenFiles
        /\ \A t, u \in TaskSet : Real(tasks[t].first) = Real(tasks[u].first) => t = u
        /\ listed = input_dirs
        /\ {Real(listed[k]) : k \in 1..Len(listed)} = OpenDirs
        /\ \A k, m \in 1..Len(listed) : Real(listed[k]) = Real(listed[m]) => k = m
        /\ listed[1] = g.input
        /\ \A k, m \in 2..Len(listed) :
               k < m => /\ FrontierIndex(ParentPath(listed[k])) >= 1
                        /\ FrontierIndex(ParentPath(listed[k]))
                               <= FrontierIndex(ParentPath(listed[m]))

\* the tree holds nothing the system refuses to list or to relate
SoundTree ==
    /\ \A d \in fsDirs : d \notin Unlistable
    /\ \A f \in DOMAIN fsFiles : f \notin Unrelatable

\* C22 Enumeration terminates: for every finite directory structure under
\* the scan root that the system lets the program read, one with a directory
\* entry that resolves to an ancestor or to a directory already queued
\* included, the frontier loop of process_directory comes to its end by
\* itself: the traversal is never cut short, it finishes with its task list.
C22_EnumerationTerminates ==
    SoundTree => pc # "aborted"

====
